---- MODULE Spec2Model ----
(***************************************************************************)
(* Model of the repository handle of wit: lib/wit/gitrepo.py (GitRepo) and *)
(* lib/package.py (Package).                                               *)
(*                                                                         *)
(* A Python str is a sequence of lexemes: <<"origin", "/", "main">> is the *)
(* text origin/main.  The separators the code looks at (/ : @ . -) are     *)
(* lexemes of their own, and a word contains none of them, so that         *)
(* concatenation, split, replace and the two regular expressions act on    *)
(* the text as the code does.                                              *)
(***************************************************************************)
EXTENDS Naturals, Sequences, FiniteSets, TLC

VARIABLES
    path,            \* self.path: "repo" (wsroot/name) or "parent" (wsroot)
    known_hashes,    \* self._known_hashes
    commit_cache,    \* lru_cache of _get_commit_cached, for this handle
    short_cache,     \* lru_cache of _get_shortened_rev_cached
    time_cache,      \* lru_cache of _commit_to_time_cached
    revision,        \* self.revision, Nil until checkout sets it
    dir,             \* what is at wsroot/name: "missing", "plain", "git";
                     \* "noroot" when wsroot itself does not exist
    head,            \* the commit HEAD resolves to, Nil when unborn
    refs,            \* ref name -> commit, Nil when the ref does not exist
    remotes,         \* remote name -> url of the repository at wsroot/name
    untracked,       \* the working tree at wsroot/name holds an untracked
                     \* file or directory named build
    last,            \* the call just made on the handle and what it did
    arg,             \* the token given to Package.from_arg, or the workspace
                     \* root and the manifest entry given to from_manifest
    pkg              \* what the factory built from it

vars == <<path, known_hashes, commit_cache, short_cache, time_cache, revision,
          dir, head, refs, remotes, untracked, last, arg, pkg>>

handleVars == <<path, known_hashes, commit_cache, short_cache, time_cache, revision>>
repoVars == <<dir, head, refs, remotes, untracked>>
argVars == <<arg, pkg>>

----------------------------------------------------------------------------
(* Bounds *)

\* longest token given to Package.from_arg, in lexemes
MaxArgLen == 7

----------------------------------------------------------------------------
(* Strings *)

Nil == <<>>

Str(w) == <<w>>

RECURSIVE Join(_)
\* concatenation of a sequence of strings
Join(ss) == IF ss = <<>> THEN <<>> ELSE Head(ss) \o Join(Tail(ss))

StartsWith(s, p) == Len(s) >= Len(p) /\ SubSeq(s, 1, Len(p)) = p

\* s.replace(old, new) for a one-character old
Replace(s, old, new) == [i \in 1..Len(s) |-> IF s[i] = old THEN new ELSE s[i]]

RECURSIVE Split(_, _)
\* s.split(sep): every non-overlapping occurrence of sep, left to right
Split(s, sep) ==
    IF \E i \in 1..Len(s) : StartsWith(SubSeq(s, i, Len(s)), sep)
    THEN LET i == CHOOSE k \in 1..Len(s) :
                      /\ StartsWith(SubSeq(s, k, Len(s)), sep)
                      /\ \A j \in 1..(k-1) : ~StartsWith(SubSeq(s, j, Len(s)), sep)
         IN  <<SubSeq(s, 1, i-1)>> \o Split(SubSeq(s, i + Len(sep), Len(s)), sep)
    ELSE <<s>>

Max(S) == CHOOSE x \in S : \A y \in S : y <= x
Min(S) == CHOOSE x \in S : \A y \in S : x <= y

----------------------------------------------------------------------------
(* lib/package.py *)

ArgAlphabet == {"s", "r", ":"}

ArgStrings == UNION {[1..n -> ArgAlphabet] : n \in 0..MaxArgLen}

NoPkg == [source |-> Nil, revision |-> Nil, built |-> FALSE]

\* lib.gitrepo.GitRepo(source, rev): the handle keeps both
GitRepoOfArg(source, rev) == [source |-> source, revision |-> rev, built |-> TRUE]

\* Package.from_arg: (s.split("::") + [None])[:2]; an element of the list is
\* <<part>>, None is <<>>
from_arg(s) ==
    LET parts  == Split(s, <<":", ":">>)
        padded == [i \in 1..Len(parts) |-> <<parts[i]>>] \o << <<>> >>
        two    == SubSeq(padded, 1, 2)
        source == two[1][1]
        rev    == IF two[2] = <<>> THEN Str("HEAD") ELSE two[2][1]
    IN  GitRepoOfArg(source, rev)

----------------------------------------------------------------------------
(* The data of the model: commits, refs, revision expressions, sources *)

\* two commits; a full hash is its abbreviation followed by the rest
H1 == <<"1a2b3c4", "d5e6f70">>
H2 == <<"8a9b0c1", "d2e3f45">>
Hashes == {H1, H2}

\* the abbreviated hash git prints for a commit
Short(h) == SubSeq(h, 1, 1)

\* the committer date of a commit (%ct)
Time(h) == IF h = H1 THEN Str("1500000000") ELSE Str("1600000000")

HEAD == Str("HEAD")
Main == Str("main")
V1 == Str("v1")

RefHeadsMain == <<"refs", "/", "heads", "/", "main">>
RefTagsV1 == <<"refs", "/", "tags", "/", "v1">>
RefOriginMain == <<"refs", "/", "remotes", "/", "origin", "/", "main">>

\* the refs of the repository, in the order show-ref lists them
RefOrder == <<RefHeadsMain, RefOriginMain, RefTagsV1>>
RefNames == {RefOrder[i] : i \in 1..Len(RefOrder)}

NoRefs == [r \in RefNames |-> Nil]

\* the revision expressions the handle is asked about
Exprs == Hashes \cup {Short(H1), HEAD, Main, V1}

SrcHttps == <<"https", ":", "/", "/", "github", ".", "com", "/", "sifive", "/", "wit", ".", "git">>
SrcSsh == <<"git", "@", "github", ".", "com", ":", "sifive", "/", "wit", ".", "git">>
SrcOther == <<"https", ":", "/", "/", "gitlab", ".", "com", "/", "acme", "/", "hw", "/", "tool">>
SrcLocal == <<"/", "srv", "/", "git", "/", "wit">>
Sources == {SrcHttps, SrcSsh, SrcOther, SrcLocal}

\* the names passed to clone, fetch and download
Names == {"wit", "dep"}

Origin == Str("origin")

\* a name that no ref has, and that a file in the working tree may have
Build == Str("build")

----------------------------------------------------------------------------
(* The two regular expressions *)

\* verbose_prefix.sub('', r), verbose_prefix = ^refs/(?:heads/)?
verbose_prefix_sub(r) ==
    IF StartsWith(r, <<"refs", "/">>)
    THEN LET rest == SubSeq(r, 3, Len(r))
         IN  IF StartsWith(rest, <<"heads", "/">>)
             THEN SubSeq(rest, 3, Len(rest))
             ELSE rest
    ELSE r

OneChar == {"/", ":", "@", ".", "-"}

\* [@/]([^:/]+).com[:/] matched with [@/] at i and group 1 ending at j
UrlHostAt(s, i, j) ==
    /\ i >= 1 /\ j > i /\ j + 3 <= Len(s)
    /\ s[i] \in {"@", "/"}
    /\ \A k \in (i+1)..j : s[k] \notin {":", "/"}
    /\ s[j+1] \in OneChar
    /\ s[j+2] = "com"
    /\ s[j+3] \in {":", "/"}

\* (.*)/([^/.]+) matched with group 2 starting at a, the / at k, group 3 ending at l
UrlTailAt(s, a, k, l) ==
    /\ k >= a /\ l > k /\ l <= Len(s)
    /\ s[k] = "/"
    /\ \A m \in (k+1)..l : s[m] \notin {"/", "."}

\* re.search(r'[@/]([^:/]+).com[:/](.*)/([^/.]+)(.git|)', source): the
\* leftmost match, each group as long as the rest of the match allows;
\* <<>> when there is no match, else <<group 1, group 2, group 3>>
UrlSearch(s) ==
    LET n == Len(s)
        Matches(i, j) == UrlHostAt(s, i, j) /\ \E k \in 1..n, l \in 1..n : UrlTailAt(s, j+4, k, l)
        starts == {i \in 1..n : \E j \in 1..n : Matches(i, j)}
    IN  IF starts = {} THEN <<>>
        ELSE LET i == Min(starts)
                 j == Max({jj \in 1..n : Matches(i, jj)})
                 k == Max({kk \in 1..n : \E l \in 1..n : UrlTailAt(s, j+4, kk, l)})
                 l == Max({ll \in 1..n : UrlTailAt(s, j+4, k, ll)})
             IN  <<SubSeq(s, i+1, j), SubSeq(s, j+4, k-1), SubSeq(s, k+1, l)>>

\* the search, made once for every source
UrlMatch == [s \in Sources |-> UrlSearch(s)]

----------------------------------------------------------------------------
(* The version-control backend: what a git command answers and changes *)

NoExc == [type |-> "None", args |-> <<>>]

\* what the world outside the handle decides during one call
\*   reachable: the source of the call answers ls-remote
\*   cmdOk:     nothing outside the model makes clone, fetch or checkout fail
\*   srcHead:   the commit the source's HEAD is at, Nil for an empty source
\*   reference: a reference repository for the name exists
Envs == [reachable : BOOLEAN, cmdOk : BOOLEAN, srcHead : Hashes \cup {Nil},
         reference : BOOLEAN]

QuietEnv == [reachable |-> TRUE, cmdOk |-> TRUE, srcHead |-> Nil, reference |-> FALSE]

\* the running call: the handle, the repository, the commands issued so
\* far, the exception raised and the value returned
Ctx(env) ==
    [path |-> path, kh |-> known_hashes, cc |-> commit_cache, sc |-> short_cache,
     tc |-> time_cache, revision |-> revision,
     dir |-> dir, head |-> head, refs |-> refs, remotes |-> remotes,
     untracked |-> untracked,
     cmds |-> <<>>, exc |-> NoExc, ret |-> <<>>, env |-> env]

\* a command handed to run: ran tells that run started it, rc is its exit status
Cmd(where, cmd, args, ran, rc) ==
    [where |-> where, cmd |-> cmd, args |-> args, ran |-> ran, rc |-> rc]

Proc(rc, out, err) == [returncode |-> rc, stdout |-> out, stderr |-> err]

Failed(c) == c.exc.type # "None"

Raise(c, type, args) == [c EXCEPT !.exc = [type |-> type, args |-> args], !.ret = <<>>]

Return(c, v) == [c EXCEPT !.ret = <<v>>]

ErrUnknown == <<"fatal: ambiguous argument: ", "unknown revision or path not in the working tree">>
ErrNotRepo == <<"fatal: not a git repository">>
ErrOther == <<"fatal: ">>

Contains(s, lexeme) == \E i \in 1..Len(s) : s[i] = lexeme

\* proc.stdout.rstrip()
RStrip(s) ==
    LET keep == {i \in 1..Len(s) : s[i] \notin {"\n", " "}}
    IN  IF keep = {} THEN <<>> ELSE SubSeq(s, 1, Max(keep))

\* the ref names git tries for a name, in git's order
RefCandidates(rev) ==
    << <<"refs", "/">> \o rev,
       <<"refs", "/", "tags", "/">> \o rev,
       <<"refs", "/", "heads", "/">> \o rev,
       <<"refs", "/", "remotes", "/">> \o rev >>

\* the commit a revision expression names in the repository, Nil if none
Resolve(c, rev) ==
    IF rev \in Hashes THEN rev
    ELSE IF c.head = Nil THEN Nil
    ELSE IF rev = HEAD THEN c.head
    ELSE IF \E h \in Hashes : Short(h) = rev
         THEN CHOOSE h \in Hashes : Short(h) = rev
    ELSE LET cand == RefCandidates(rev)
             hits == {i \in 1..Len(cand) : cand[i] \in RefNames /\ c.refs[cand[i]] # Nil}
         IN  IF hits = {} THEN Nil ELSE c.refs[cand[Min(hits)]]

\* the output of show-ref: a line "<hash> <ref>" for every ref
ShowRefOut(c) ==
    LET Line(i) == IF c.refs[RefOrder[i]] = Nil THEN <<>>
                   ELSE c.refs[RefOrder[i]] \o <<" ">> \o RefOrder[i] \o <<"\n">>
    IN  Join([i \in 1..Len(RefOrder) |-> Line(i)])

\* the output of remote show: a line for every remote
RemoteShowOut(c) ==
    LET RECURSIVE Lines(_)
        Lines(S) == IF S = {} THEN <<>>
                    ELSE LET r == CHOOSE x \in S : TRUE
                         IN  r \o <<"\n">> \o Lines(S \ {r})
    IN  Lines(DOMAIN c.remotes)

\* the repository a command leaves behind
Repo(c) ==
    [dir |-> c.dir, head |-> c.head, refs |-> c.refs, remotes |-> c.remotes,
     untracked |-> c.untracked]

Answer(proc, repo) == [proc |-> proc, repo |-> repo]

\* git checkout <rev>: moves HEAD to the commit rev names; a name that is
\* only a branch of origin gets a local branch first
ExecCheckout(c, rev) ==
    LET h      == Resolve(c, rev)
        local  == <<"refs", "/", "heads", "/">> \o rev
        remote == <<"refs", "/", "remotes", "/", "origin", "/">> \o rev
    IN  IF c.head = Nil \/ ~c.env.cmdOk
        THEN Answer(Proc(1, <<>>, ErrOther), Repo(c))
        ELSE IF h # Nil
        THEN Answer(Proc(0, <<>>, <<>>), [Repo(c) EXCEPT !.head = h])
        ELSE IF local \in RefNames /\ remote \in RefNames /\ c.refs[remote] # Nil
        THEN Answer(Proc(0, <<>>, <<>>),
                    [Repo(c) EXCEPT !.head = c.refs[remote],
                                    !.refs = [c.refs EXCEPT ![local] = c.refs[remote]]])
        ELSE Answer(Proc(1, <<>>, ErrOther), Repo(c))

\* git clone ... <source> <path>, run in the workspace root
ExecClone(c, source) ==
    IF c.dir # "git" /\ c.env.reachable /\ c.env.cmdOk
    THEN Answer(Proc(0, <<>>, <<>>),
                [dir |-> "git", head |-> c.env.srcHead,
                 refs |-> [NoRefs EXCEPT ![RefHeadsMain] = c.env.srcHead,
                                         ![RefOriginMain] = c.env.srcHead],
                 remotes |-> [r \in {Origin} |-> source],
                 untracked |-> FALSE])
    ELSE Answer(Proc(128, <<>>, ErrOther), Repo(c))

\* a git command run inside the repository directory; rev-parse prints an
\* argument that is no revision but the name of a file there as it is
ExecInRepo(c, cmd, args) ==
    LET fail(err) == Answer(Proc(128, <<>>, err), Repo(c))
        ok(out)   == Answer(Proc(0, out, <<>>), Repo(c))
    IN  IF c.dir = "plain" THEN fail(ErrNotRepo)
        ELSE CASE cmd = "rev-parse" /\ Len(args) = 1 ->
                    IF Resolve(c, args[1]) # Nil
                    THEN ok(Resolve(c, args[1]) \o <<"\n">>)
                    ELSE IF c.untracked /\ args[1] = Build
                    THEN ok(args[1] \o <<"\n">>)
                    ELSE Answer(Proc(128, args[1] \o <<"\n">>, ErrUnknown), Repo(c))
               [] cmd = "rev-parse" /\ Len(args) = 2 ->
                    IF Resolve(c, args[2]) # Nil
                    THEN ok(Short(Resolve(c, args[2])) \o <<"\n">>)
                    ELSE fail(ErrOther)
               [] cmd = "log" ->
                    IF c.head # Nil /\ Resolve(c, args[3]) # Nil
                    THEN ok(Time(Resolve(c, args[3])) \o <<"\n">>)
                    ELSE fail(ErrOther)
               [] cmd = "show-ref" ->
                    IF ShowRefOut(c) # <<>> THEN ok(ShowRefOut(c))
                    ELSE Answer(Proc(1, <<>>, <<>>), Repo(c))
               [] cmd = "checkout" /\ Len(args) = 0 ->
                    IF c.head # Nil THEN ok(<<>>) ELSE fail(ErrOther)
               [] cmd = "checkout" /\ Len(args) = 1 -> ExecCheckout(c, args[1])
               [] cmd = "fetch" ->
                    IF /\ c.env.reachable /\ c.env.cmdOk
                       /\ (args[1] \in Sources \/ args[1] \in DOMAIN c.remotes)
                    THEN ok(<<>>) ELSE fail(ErrOther)
               [] cmd = "remote" /\ args[1] = Str("get-url") ->
                    IF args[2] \in DOMAIN c.remotes
                    THEN ok(c.remotes[args[2]] \o <<"\n">>) ELSE fail(ErrOther)
               [] cmd = "remote" /\ args[1] = Str("add") ->
                    IF args[2] \notin DOMAIN c.remotes
                    THEN Answer(Proc(0, <<>>, <<>>),
                                [Repo(c) EXCEPT !.remotes =
                                    [r \in DOMAIN c.remotes \cup {args[2]} |->
                                        IF r = args[2] THEN args[3] ELSE c.remotes[r]]])
                    ELSE Answer(Proc(3, <<>>, ErrOther), Repo(c))
               [] cmd = "remote" /\ args[1] = Str("show") -> ok(RemoteShowOut(c))

\* a git command run in the workspace root, which is not a repository
ExecInParent(c, cmd, args) ==
    CASE cmd = "clone" -> ExecClone(c, args[Len(args) - 1])
      [] cmd = "ls-remote" ->
            IF args[1] \in Sources /\ c.env.reachable
            THEN Answer(Proc(0, <<>>, <<>>), Repo(c))
            ELSE Answer(Proc(128, <<>>, ErrOther), Repo(c))

\* a local variable of a method: the value assigned, and the code after the
\* assignment as a function of the variable
Bind(value, Rest(_)) == Rest(value)

\* GitRepo._git_command: runs git in str(self.path) or in working_dir; run
\* raises when the directory does not exist.  Gives the call after the
\* command and the finished process; cmds has every command handed to run.
_git_command(c, cmd, args, working_dir) ==
    LET where == IF working_dir = "None" THEN c.path ELSE working_dir
    IN  IF \/ where = "repo" /\ c.dir \in {"missing", "noroot"}
           \/ where = "parent" /\ c.dir = "noroot"
        THEN [c |-> Raise([c EXCEPT !.cmds = Append(@, Cmd(where, cmd, args, FALSE, 0))],
                          "FileNotFoundError", <<>>),
              proc |-> Proc(0, <<>>, <<>>)]
        ELSE Bind(IF where = "repo" THEN ExecInRepo(c, cmd, args)
                  ELSE ExecInParent(c, cmd, args), LAMBDA a :
             [c |-> [c EXCEPT !.cmds = Append(@, Cmd(where, cmd, args, TRUE, a.proc.returncode)),
                              !.dir = a.repo.dir, !.head = a.repo.head,
                              !.refs = a.repo.refs, !.remotes = a.repo.remotes,
                              !.untracked = a.repo.untracked],
              proc |-> a.proc])

\* GitRepo._git_check
_git_check(c, cmd, proc) ==
    IF proc.returncode # 0 THEN Raise(c, "GitError", <<cmd, proc.stdout, proc.stderr>>) ELSE c

\* GitRepo.is_git_repo: git ls-remote --exit-code <path>, which exits with 2
\* when the repository at path has no ref to list
is_git_repo(c) ==
    LET rc == IF c.dir # "git" THEN 128
              ELSE IF c.head = Nil /\ c.refs = NoRefs THEN 2 ELSE 0
    IN  [c |-> [c EXCEPT !.cmds = Append(@, Cmd("cwd", "ls-remote",
                                             <<Str("--exit-code"), Str("path")>>, TRUE, rc))],
         ret |-> rc = 0]

----------------------------------------------------------------------------
(* lib/wit/gitrepo.py: the methods of GitRepo, each from a call to the call *)
(* after it                                                                 *)

Put(f, k, v) == [x \in DOMAIN f \cup {k} |-> IF x = k THEN v ELSE f[x]]

\* GitRepo._known_hash
_known_hash(c, commit) == commit \in c.kh

\* _add_known_hash keeping only the newest hash
_add_known_hash_only(c, commit) == [c EXCEPT !.kh = {commit}]

\* GitRepo._add_known_hash
_add_known_hash(c, commit) == [c EXCEPT !.kh = @ \cup {commit}]

\* GitRepo.is_bad_source
is_bad_source(c, source) ==
    LET tmp == c.path
    IN  Bind(_git_command([c EXCEPT !.path = "parent"], "ls-remote", <<source>>, "None"),
             LAMBDA r :
        IF Failed(r.c) THEN r.c
        ELSE Return([r.c EXCEPT !.path = tmp], r.proc.returncode # 0))

\* GitRepo.assign_remote_from_source: without a match, the message names a
\* variable the function does not have
assign_remote_from_source(c, source) ==
    LET url == UrlMatch[source]
    IN  IF url = <<>> THEN Raise(c, "NameError", <<>>)
        ELSE Return(c, <<url[1], url[2], url[3]>>)

\* GitRepo._git_reference_options
_git_reference_options(c) ==
    IF c.env.reference
    THEN <<Str("--reference"), Str("refpath"), Str("--dissociate")>>
    ELSE <<>>

\* GitRepo.clone
clone(c, source, name) ==
    Bind(is_git_repo(c), LAMBDA g :
    IF g.ret THEN Raise(g.c, "AssertionError", <<>>)
    ELSE Bind(_git_command(g.c, "clone",
                           _git_reference_options(g.c)
                               \o <<Str("--no-checkout"), source, Str("path")>>,
                           "parent"), LAMBDA r :
         IF Failed(r.c) THEN r.c
         ELSE Bind(_git_check(r.c, "clone", r.proc), LAMBDA k :
              IF Failed(k)
              THEN Bind(is_bad_source(r.c, source), LAMBDA b :
                   IF Failed(b) THEN b
                   ELSE IF b.ret[1] THEN Raise(b, "BadSource", <<name, source>>)
                   ELSE Raise(b, "GitError", k.exc.args))
              ELSE k)))

\* GitRepo.fetch
fetch(c, source, name) ==
    Bind(_git_command(c, "fetch", <<source>>, "None"), LAMBDA r :
    IF Failed(r.c) THEN r.c
    ELSE Bind(_git_check(r.c, "fetch", r.proc), LAMBDA k :
         IF Failed(k)
         THEN Bind(is_bad_source(r.c, source), LAMBDA b :
              IF Failed(b) THEN b
              ELSE IF b.ret[1] THEN Raise(b, "BadSource", <<name, source>>)
              ELSE Raise(b, "GitError", k.exc.args))
         ELSE Return(k, r.proc.returncode = 0)))

\* GitRepo._get_commit_impl
_get_commit_impl(c, commit) ==
    Bind(_git_command(c, "rev-parse", <<commit>>, "None"), LAMBDA r1 :
    IF Failed(r1.c) THEN r1.c
    ELSE IF ~Failed(_git_check(r1.c, "rev-parse", r1.proc))
    THEN Return(r1.c, RStrip(r1.proc.stdout))
    ELSE Bind(_git_command(r1.c, "rev-parse", <<<<"origin", "/">> \o commit>>, "None"),
              LAMBDA r2 :
         IF Failed(r2.c) THEN r2.c
         ELSE Bind(_git_check(r2.c, "rev-parse", r2.proc), LAMBDA k2 :
              IF Failed(k2)
              THEN IF Contains(r2.proc.stderr,
                               "unknown revision or path not in the working tree")
                   THEN Raise(r2.c, "GitCommitNotFound", <<>>)
                   ELSE k2
              ELSE Return(r2.c, RStrip(r2.proc.stdout)))))

\* GitRepo._get_commit_cached: lru_cache keeps what the call returned, and
\* nothing when it raised
_get_commit_cached(c, commit) ==
    IF commit \in DOMAIN c.cc THEN Return(c, c.cc[commit])
    ELSE Bind(_get_commit_impl(c, commit), LAMBDA r :
         IF Failed(r) THEN r ELSE [r EXCEPT !.cc = Put(@, commit, r.ret[1])])

\* get_commit remembering the expression it was asked about, not the hash
get_commit_keeps_expr(c, commit) ==
    Bind(IF _known_hash(c, commit) THEN _get_commit_cached(c, commit)
         ELSE _get_commit_impl(c, commit), LAMBDA r :
    IF Failed(r) THEN r ELSE _add_known_hash(r, commit))

\* get_commit remembering the expression before it is resolved
get_commit_adds_first(c, commit) ==
    Bind(_add_known_hash(c, commit), LAMBDA a :
    Bind(_get_commit_cached(a, commit), LAMBDA r :
    IF Failed(r) THEN r ELSE _add_known_hash(r, r.ret[1])))

\* GitRepo.get_commit
get_commit(c, commit) ==
    Bind(IF _known_hash(c, commit) THEN _get_commit_cached(c, commit)
         ELSE _get_commit_impl(c, commit), LAMBDA r :
    IF Failed(r) THEN r ELSE _add_known_hash(r, r.ret[1]))

\* GitRepo.get_head_commit
get_head_commit(c) == get_commit(c, HEAD)

\* GitRepo._get_shortened_rev_impl
_get_shortened_rev_impl(c, commit) ==
    Bind(_git_command(c, "rev-parse", <<Str("--short"), commit>>, "None"), LAMBDA r :
    IF Failed(r.c) THEN r.c
    ELSE Bind(_git_check(r.c, "rev-parse", r.proc), LAMBDA k :
         IF Failed(k) THEN k
         ELSE Return(k, RStrip(r.proc.stdout))))

\* GitRepo._get_shortened_rev_cached
_get_shortened_rev_cached(c, commit) ==
    IF commit \in DOMAIN c.sc THEN Return(c, c.sc[commit])
    ELSE Bind(_get_shortened_rev_impl(c, commit), LAMBDA r :
         IF Failed(r) THEN r ELSE [r EXCEPT !.sc = Put(@, commit, r.ret[1])])

\* get_shortened_rev remembering the abbreviation it returns
get_shortened_rev_remembering(c, commit) ==
    Bind(IF _known_hash(c, commit) THEN _get_shortened_rev_cached(c, commit)
         ELSE _get_shortened_rev_impl(c, commit), LAMBDA r :
    IF Failed(r) THEN r ELSE _add_known_hash(r, r.ret[1]))

\* GitRepo.get_shortened_rev
get_shortened_rev(c, commit) ==
    IF _known_hash(c, commit) THEN _get_shortened_rev_cached(c, commit)
    ELSE _get_shortened_rev_impl(c, commit)

\* GitRepo._commit_to_time_impl
_commit_to_time_impl(c, hash) ==
    Bind(_git_command(c, "log", <<Str("-n1"), Str("--format=%ct"), hash>>, "None"), LAMBDA r :
    IF Failed(r.c) THEN r.c
    ELSE Bind(_git_check(r.c, "log", r.proc), LAMBDA k :
         IF Failed(k) THEN k
         ELSE Return(k, RStrip(r.proc.stdout))))

\* GitRepo._commit_to_time_cached
_commit_to_time_cached(c, hash) ==
    IF hash \in DOMAIN c.tc THEN Return(c, c.tc[hash])
    ELSE Bind(_commit_to_time_impl(c, hash), LAMBDA r :
         IF Failed(r) THEN r ELSE [r EXCEPT !.tc = Put(@, hash, r.ret[1])])

\* GitRepo.commit_to_time
commit_to_time(c, hash) ==
    IF _known_hash(c, hash) THEN _commit_to_time_cached(c, hash)
    ELSE _commit_to_time_impl(c, hash)

\* GitRepo.get_remote
get_remote(c) ==
    Bind(_git_command(c, "remote", <<Str("get-url"), Origin>>, "None"), LAMBDA r :
    IF Failed(r.c) THEN r.c
    ELSE Bind(_git_check(r.c, "remote", r.proc), LAMBDA k :
         IF Failed(k) THEN k
         ELSE Return(k, RStrip(r.proc.stdout))))

\* GitRepo.remote_add
remote_add(c, remote, source) ==
    Bind(_git_command(c, "remote", <<Str("add"), remote, source>>, "None"), LAMBDA r :
    IF Failed(r.c) THEN r.c ELSE _git_check(r.c, "remote", r.proc))

\* GitRepo.list_remote: the lines of the output, as a set
list_remote(c) ==
    Bind(_git_command(c, "remote", <<Str("show")>>, "None"), LAMBDA r :
    IF Failed(r.c) THEN r.c
    ELSE Bind(_git_check(r.c, "remote", r.proc), LAMBDA k :
         IF Failed(k) THEN k
         ELSE Bind(Split(RStrip(r.proc.stdout), <<"\n">>), LAMBDA lines :
              Return(k, {lines[i] : i \in 1..Len(lines)}))))

\* a Python value with its type: a str never equals a tuple
PyStr(v) == [type |-> "str", val |-> v]
PyTuple(v) == [type |-> "tuple", val |-> v]
PyNe(a, b) == a.type # b.type \/ a.val # b.val

\* a remote name that is origin for every source
RemoteName_origin(url) == Origin

\* the remote name download makes of a source: web + '-' + org.replace('/', '-')
RemoteName(url) == url[1] \o <<"-">> \o Replace(url[2], "/", "-")

\* a method that returns nothing
ReturnNone(c) == IF Failed(c) THEN c ELSE [c EXCEPT !.ret = <<>>]

\* GitRepo.download
download(c, source, name) ==
    Bind(assign_remote_from_source(c, source), LAMBDA a :
    IF Failed(a) THEN a
    ELSE Bind(RemoteName(a.ret[1]), LAMBDA remote :
         Bind(is_git_repo(a), LAMBDA g :
         IF ~g.ret THEN ReturnNone(clone(g.c, source, name))
         ELSE Bind(get_remote(g.c), LAMBDA u :
              IF Failed(u) THEN u
              ELSE Bind(assign_remote_from_source(u, u.ret[1]), LAMBDA o :
                   IF Failed(o) THEN o
                   ELSE Bind(o.ret[1], LAMBDA origin :
                        Bind(list_remote(o), LAMBDA l :
                        IF Failed(l) THEN l
                        ELSE IF \/ ~(remote \in l.ret[1])
                                \/ PyNe(PyStr(remote), PyTuple(origin))
                        THEN Bind(remote_add(l, remote, source), LAMBDA d :
                             IF Failed(d) THEN d
                             ELSE ReturnNone(fetch(d, remote, name)))
                        ELSE ReturnNone(l))))))))

\* rev_names that keeps the remote-tracking refs
RevNames_with_remotes(stdout, wanted_hash) ==
    LET lines  == Split(RStrip(stdout), <<"\n">>)
        split  == [i \in 1..Len(lines) |-> Split(lines[i], <<" ">>)]
        AtWanted(r) == r[1] = wanted_hash
        names  == [i \in 1..Len(SelectSeq(split, AtWanted)) |->
                      SelectSeq(split, AtWanted)[i][2]]
    IN  [i \in 1..Len(names) |-> verbose_prefix_sub(names[i])]

\* the rev_names checkout makes of the output of show-ref
RevNames(stdout, wanted_hash) ==
    LET lines  == Split(RStrip(stdout), <<"\n">>)
        split  == [i \in 1..Len(lines) |-> Split(lines[i], <<" ">>)]
        AtWanted(r) == r[1] = wanted_hash
        names  == [i \in 1..Len(SelectSeq(split, AtWanted)) |->
                      SelectSeq(split, AtWanted)[i][2]]
        Local(r) == ~StartsWith(r, <<"refs", "/", "remotes">>)
        locals == SelectSeq(names, Local)
    IN  [i \in 1..Len(locals) |-> verbose_prefix_sub(locals[i])]

\* GitRepo.checkout, the branch that changes position: the refs at
\* wanted_hash, and the checkout of the one name or of the expression
checkout_switch(c, rev_expr, wanted_hash) ==
    Bind(_git_command(c, "show-ref", <<>>, "None"), LAMBDA s :
    IF Failed(s.c) THEN s.c
    ELSE Bind(_git_check(s.c, "show-ref", s.proc), LAMBDA k :
         IF Failed(k) THEN k
         ELSE Bind(RevNames(s.proc.stdout, wanted_hash), LAMBDA rev_names :
              Bind(IF Len(rev_names) # 1 THEN rev_expr ELSE rev_names[1], LAMBDA rev :
              Bind(_git_command(k, "checkout", <<rev>>, "None"), LAMBDA p :
              IF Failed(p.c) THEN p.c
              ELSE _git_check(p.c, "checkout", p.proc))))))

\* the refresh naming HEAD in the checkout it issues
checkout_refresh_names_head(c) ==
    Bind(_git_command(c, "checkout", <<HEAD>>, "None"), LAMBDA p :
    IF Failed(p.c) THEN p.c
    ELSE _git_check(p.c, "checkout", p.proc))

\* GitRepo.checkout, the branch that stays: a checkout without argument
checkout_refresh(c) ==
    Bind(_git_command(c, "checkout", <<>>, "None"), LAMBDA p :
    IF Failed(p.c) THEN p.c
    ELSE _git_check(p.c, "checkout", p.proc))

\* checkout storing the wanted hash as the revision before it changes position
checkout_revision_first(c, rev_expr) ==
    Bind(get_commit(c, rev_expr), LAMBDA w :
    IF Failed(w) THEN w
    ELSE Bind(w.ret[1], LAMBDA wanted_hash :
         Bind(get_commit([w EXCEPT !.revision = wanted_hash], HEAD), LAMBDA h :
         IF Failed(h) THEN h
         ELSE Bind(IF h.ret[1] # wanted_hash
                   THEN checkout_switch(h, rev_expr, wanted_hash)
                   ELSE checkout_refresh(h), LAMBDA done :
              IF Failed(done) THEN done
              ELSE Bind(get_head_commit(done), LAMBDA f :
                   IF Failed(f) THEN f
                   ELSE ReturnNone(f))))))

\* GitRepo.checkout
checkout(c, rev_expr) ==
    Bind(get_commit(c, rev_expr), LAMBDA w :
    IF Failed(w) THEN w
    ELSE Bind(w.ret[1], LAMBDA wanted_hash :
         Bind(get_commit(w, HEAD), LAMBDA h :
         IF Failed(h) THEN h
         ELSE Bind(IF h.ret[1] # wanted_hash
                   THEN checkout_switch(h, rev_expr, wanted_hash)
                   ELSE checkout_refresh(h), LAMBDA done :
              IF Failed(done) THEN done
              ELSE Bind(get_head_commit(done), LAMBDA f :
                   IF Failed(f) THEN f
                   ELSE ReturnNone([f EXCEPT !.revision = f.ret[1]]))))))

----------------------------------------------------------------------------
(* lib/package.py: Package.from_manifest *)

\* the workspace roots, and the entries of a manifest: with and without a
\* source, and one that lacks its commit
WsRoots == {<<"/", "ws">>, <<"/", "home", "/", "w">>}
ManifestNames == {Str("lib"), Str("dep")}
ManifestCommits == {Str("abc123"), H1, Main}
Manifests ==
    [name : ManifestNames, commit : ManifestCommits]
        \cup [name : ManifestNames, commit : ManifestCommits, source : Sources]
        \cup [name : ManifestNames]
ManifestArgs == [wsroot : WsRoots, m : Manifests]

\* lib.gitrepo.GitRepo(source, commit, name=name, path=path): the handle
\* keeps the four; a source is <<>> for None and <<s>> for the str s
GitRepoOfManifest(source, commit, name, pth) ==
    [source |-> source, revision |-> commit, name |-> name, path |-> pth,
     built |-> TRUE]

\* m.get(key, None)
DictGet(m, key) == IF key \in DOMAIN m THEN <<m[key]>> ELSE <<>>

\* wsroot / name
PathJoin(wsroot, name) == wsroot \o <<"/">> \o name

\* from_manifest with the check of the path that the code has as a comment
from_manifest_checking(c, wsroot, m) ==
    IF "commit" \notin DOMAIN m THEN Raise(c, "KeyError", <<Str("commit")>>)
    ELSE IF "name" \notin DOMAIN m THEN Raise(c, "KeyError", <<Str("name")>>)
    ELSE Bind(is_git_repo(c), LAMBDA g :
         IF ~g.ret THEN Raise(g.c, "Exception", <<>>)
         ELSE Return(g.c, GitRepoOfManifest(DictGet(m, "source"), m["commit"], m["name"],
                                            PathJoin(wsroot, m["name"]))))

\* Package.from_manifest
from_manifest(c, wsroot, m) ==
    IF "commit" \notin DOMAIN m THEN Raise(c, "KeyError", <<Str("commit")>>)
    ELSE IF "name" \notin DOMAIN m THEN Raise(c, "KeyError", <<Str("name")>>)
    ELSE Return(c, GitRepoOfManifest(DictGet(m, "source"), m["commit"], m["name"],
                                     PathJoin(wsroot, m["name"])))

----------------------------------------------------------------------------
(* The state machine *)

\* the handle and the repository as a call found them
Snapshot ==
    [kh |-> known_hashes, cc |-> commit_cache, sc |-> short_cache, tc |-> time_cache,
     revision |-> revision, dir |-> dir, head |-> head, refs |-> refs,
     remotes |-> remotes, untracked |-> untracked]

NoSnapshot ==
    [kh |-> {}, cc |-> <<>>, sc |-> <<>>, tc |-> <<>>, revision |-> Nil,
     dir |-> "missing", head |-> Nil, refs |-> NoRefs, remotes |-> <<>>,
     untracked |-> FALSE]

NoCall ==
    [op |-> "none", arg |-> Nil, name |-> "", env |-> QuietEnv, pre |-> NoSnapshot,
     exc |-> NoExc, ret |-> <<>>, cmds |-> <<>>]

\* GitRepo.__init__, and whatever is at wsroot/name when the handle is made
Init ==
    /\ path = "repo"
    /\ known_hashes = {}
    /\ commit_cache = <<>>
    /\ short_cache = <<>>
    /\ time_cache = <<>>
    /\ revision = Nil
    /\ dir \in {"noroot", "missing", "plain", "git"}
    /\ head = Nil
    /\ refs = NoRefs
    /\ remotes = <<>>
    /\ untracked = FALSE
    /\ last = NoCall
    /\ arg = Nil
    /\ pkg = NoPkg

\* the caller makes one call at a time: a call starts when no call is on
\* record, or repeats the call on record; a handle that a call left at
\* another path gets no further call
CanCall(op, a, name, env) ==
    /\ path = "repo"
    /\ \/ last = NoCall
       \/ last.op = op /\ last.arg = a /\ last.name = name /\ last.env = env

\* the handle and the repository after the call c, and the record of it
Finish(c, op, a, name) ==
    /\ CanCall(op, a, name, c.env)
    /\ path' = c.path
    /\ known_hashes' = c.kh
    /\ commit_cache' = c.cc
    /\ short_cache' = c.sc
    /\ time_cache' = c.tc
    /\ revision' = c.revision
    /\ dir' = c.dir
    /\ head' = c.head
    /\ refs' = c.refs
    /\ remotes' = c.remotes
    /\ untracked' = c.untracked
    /\ last' = [op |-> op, arg |-> a, name |-> name, env |-> c.env, pre |-> Snapshot,
                exc |-> c.exc, ret |-> IF Failed(c) THEN <<>> ELSE c.ret, cmds |-> c.cmds]
    /\ UNCHANGED argVars

CheckoutEnvs == {e \in Envs : e.reachable /\ e.srcHead = Nil /\ ~e.reference}
ProbeEnvs == {e \in Envs : e.cmdOk /\ e.srcHead = Nil /\ ~e.reference}
FetchEnvs == {e \in Envs : e.srcHead = Nil /\ ~e.reference}
CloneEnvs == {e \in Envs : e.srcHead # H2}

GetCommit(commit) == Finish(get_commit(Ctx(QuietEnv), commit), "get_commit", commit, "")

GetShortenedRev(commit) ==
    Finish(get_shortened_rev(Ctx(QuietEnv), commit), "get_shortened_rev", commit, "")

CommitToTime(hash) == Finish(commit_to_time(Ctx(QuietEnv), hash), "commit_to_time", hash, "")

Checkout(rev, env) == Finish(checkout(Ctx(env), rev), "checkout", rev, "")

Clone(source, name, env) == Finish(ReturnNone(clone(Ctx(env), source, name)), "clone", source, name)

Fetch(source, name, env) == Finish(fetch(Ctx(env), source, name), "fetch", source, name)

Download(source, name, env) == Finish(download(Ctx(env), source, name), "download", source, name)

IsBadSource(source, env) == Finish(is_bad_source(Ctx(env), source), "is_bad_source", source, "")

\* the caller has taken the result of the call
Returned ==
    /\ last # NoCall
    /\ last' = NoCall
    /\ UNCHANGED <<handleVars, repoVars, argVars>>

\* somebody commits in the repository: HEAD moves, and the first commit
\* makes the branch
EnvCommit(h) ==
    /\ last = NoCall
    /\ dir = "git"
    /\ head # h
    /\ head' = h
    /\ refs' = IF head = Nil THEN [refs EXCEPT ![RefHeadsMain] = h] ELSE refs
    /\ UNCHANGED <<handleVars, dir, remotes, untracked, last, argVars>>

\* somebody moves, makes or deletes a branch, a tag or a remote-tracking branch
EnvSetRef(r, v) ==
    /\ last = NoCall
    /\ dir = "git"
    /\ head # Nil
    /\ refs[r] # v
    /\ refs' = [refs EXCEPT ![r] = v]
    /\ UNCHANGED <<handleVars, dir, head, remotes, untracked, last, argVars>>

\* somebody makes or removes the untracked file in the working tree
EnvTouch ==
    /\ last = NoCall
    /\ dir = "git"
    /\ untracked' = ~untracked
    /\ UNCHANGED <<handleVars, dir, head, refs, remotes, last, argVars>>

(* Resolution and checkout, in a repository whose refs move *)

Resolution ==
    \/ \E e \in Exprs : GetCommit(e)
    \/ \E e \in Exprs, env \in CheckoutEnvs : Checkout(e, env)

Environment ==
    \/ \E h \in Hashes : EnvCommit(h)
    \/ \E r \in RefNames, v \in Hashes \cup {Nil} : EnvSetRef(r, v)

Next == Resolution \/ Environment \/ Returned

Spec == Init /\ [][Next]_vars

(* Clone, fetch and download from every source *)

Synchronization ==
    \/ \E s \in Sources, n \in Names, env \in CloneEnvs : Clone(s, n, env)
    \/ \E s \in Sources, n \in Names, env \in FetchEnvs : Fetch(s, n, env)
    \/ \E s \in Sources, n \in Names, env \in CloneEnvs : Download(s, n, env)
    \/ \E s \in Sources, env \in ProbeEnvs : IsBadSource(s, env)

NextSync == Synchronization \/ EnvCommit(H1) \/ Returned

SpecSync == Init /\ [][NextSync]_vars

(* Resolution in a repository whose working tree changes *)

TreeExprs == {Build, H1, HEAD}

NextTree ==
    \/ \E e \in TreeExprs : GetCommit(e)
    \/ \E h \in Hashes : EnvCommit(h)
    \/ EnvTouch
    \/ Returned

SpecTree == Init /\ [][NextTree]_vars

(* Every operation of the handle, on one commit, one source and one name *)

AllExprs == {H1, HEAD, Short(H1), Main}
AllEnvs == {e \in Envs : e.srcHead = H1 /\ ~e.reference}

Operations ==
    \/ \E e \in AllExprs : GetCommit(e)
    \/ \E e \in AllExprs : GetShortenedRev(e)
    \/ \E e \in AllExprs : CommitToTime(e)
    \/ \E e \in AllExprs : Checkout(e, QuietEnv)
    \/ \E env \in AllEnvs : Clone(SrcHttps, "dep", env)
    \/ \E env \in FetchEnvs : Fetch(SrcHttps, "dep", env)
    \/ \E env \in AllEnvs : Download(SrcHttps, "dep", env)
    \/ \E env \in ProbeEnvs : IsBadSource(SrcHttps, env)

NextAll == Operations \/ (\E h \in Hashes : EnvCommit(h)) \/ Returned

SpecAll == Init /\ [][NextAll]_vars

----------------------------------------------------------------------------
(* Package.from_arg on every token *)

InitArg ==
    /\ path = "repo"
    /\ known_hashes = {}
    /\ commit_cache = <<>>
    /\ short_cache = <<>>
    /\ time_cache = <<>>
    /\ revision = Nil
    /\ dir = "missing"
    /\ head = Nil
    /\ refs = NoRefs
    /\ remotes = <<>>
    /\ untracked = FALSE
    /\ last = NoCall
    /\ arg \in ArgStrings
    /\ pkg = NoPkg

FromArg ==
    /\ ~pkg.built
    /\ pkg' = from_arg(arg)
    /\ UNCHANGED <<handleVars, repoVars, last, arg>>

NextArg == FromArg

SpecArg == InitArg /\ [][NextArg]_vars

(* Package.from_manifest on every entry, whatever is at wsroot/name *)

InitManifest ==
    /\ path = "repo"
    /\ known_hashes = {}
    /\ commit_cache = <<>>
    /\ short_cache = <<>>
    /\ time_cache = <<>>
    /\ revision = Nil
    /\ dir \in {"noroot", "missing", "plain", "git"}
    /\ head = Nil
    /\ refs = NoRefs
    /\ remotes = <<>>
    /\ untracked = FALSE
    /\ last = NoCall
    /\ arg \in ManifestArgs
    /\ pkg = NoPkg

\* the factory after the call c, and the record of the call
FinishManifest(c) ==
    /\ pkg' = IF Failed(c) THEN pkg ELSE c.ret[1]
    /\ last' = [op |-> "from_manifest", arg |-> Nil, name |-> "", env |-> c.env,
                pre |-> Snapshot, exc |-> c.exc, ret |-> <<>>, cmds |-> c.cmds]
    /\ UNCHANGED <<handleVars, repoVars, arg>>

FromManifest ==
    /\ last = NoCall
    /\ FinishManifest(from_manifest(Ctx(QuietEnv), arg.wsroot, arg.m))

NextManifest == FromManifest

SpecManifest == InitManifest /\ [][NextManifest]_vars

----------------------------------------------------------------------------
(* Properties *)

Ok(call) == call.exc.type = "None"

Issued(call, cmd) == \E i \in 1..Len(call.cmds) : call.cmds[i].cmd = cmd

\* the handle was as constructed when the call began
Fresh(pre) ==
    /\ pre.kh = {} /\ pre.cc = <<>> /\ pre.sc = <<>> /\ pre.tc = <<>>
    /\ pre.revision = Nil

SymbolicRefs == {HEAD, Main, V1}

\* what the backend itself answers for an expression in a repository: the
\* expression, or else the same name under origin
BackendHash(repo, rev) ==
    IF repo.dir # "git" THEN Nil
    ELSE IF Resolve(repo, rev) # Nil THEN Resolve(repo, rev)
    ELSE Resolve(repo, <<"origin", "/">> \o rev)

\* C1: starting from a fresh handle, the second of two consecutive
\* get_commit(E) calls for a full commit hash E returns the same hash as the
\* first and issues no rev-parse.
C1_SecondCallIsCacheHit ==
    [][(/\ last.op = "get_commit" /\ last.arg \in Hashes /\ Ok(last)
        /\ Fresh(last.pre)
        /\ last'.op = "get_commit" /\ last'.arg = last.arg)
       => (/\ Ok(last') /\ last'.ret = last.ret
           /\ ~Issued(last', "rev-parse"))]_vars

\* C2: a get_commit of a symbolic ref always asks the backend first, with a
\* rev-parse of that ref, and what it returns is what the backend answers at
\* the time of the call, whatever earlier calls returned.
C2_SymbolicRefAlwaysQueried ==
    (last.op = "get_commit" /\ last.arg \in SymbolicRefs)
    => /\ last.arg \notin last.pre.kh
       /\ Len(last.cmds) >= 1
       /\ last.cmds[1].cmd = "rev-parse" /\ last.cmds[1].args = <<last.arg>>
       /\ Ok(last) => last.ret = <<BackendHash(last.pre, last.arg)>>

\* a branch resolved again after it moved: the hash returned is not one the
\* handle had seen, and one rev-parse was issued
C2_Witness ==
    /\ last.op = "get_commit" /\ last.arg = Main /\ Ok(last)
    /\ last.pre.kh # {}
    /\ last.ret[1] \notin last.pre.kh
    /\ Len(last.cmds) = 1

\* C3: checkout(H) with the full hash H that HEAD is at issues no show-ref,
\* issues no checkout other than the one without argument, and on success
\* leaves revision = H.
C3_CheckoutAtHead ==
    (last.op = "checkout" /\ last.arg \in Hashes /\ last.pre.dir = "git"
        /\ last.pre.head = last.arg)
    => /\ ~Issued(last, "show-ref")
       /\ \A i \in 1..Len(last.cmds) :
              last.cmds[i].cmd = "checkout" => last.cmds[i].args = <<>>
       /\ Ok(last) => /\ revision = last.arg
                      /\ Issued(last, "checkout")

C3_Witness ==
    /\ last.op = "checkout" /\ last.arg \in Hashes /\ last.pre.head = last.arg
    /\ Ok(last)
    /\ revision = last.arg
    /\ Issued(last, "checkout")

\* the local refs that are not remote-tracking, with their friendly names
FriendlyName == [r \in {RefHeadsMain, RefTagsV1} |->
                    IF r = RefHeadsMain THEN <<"main">> ELSE <<"tags", "/", "v1">>]

\* the argument the claim expects checkout to pass for an expression
ExpectedCheckoutArg(pre, rev) ==
    LET wanted == BackendHash(pre, rev)
        cands  == {r \in DOMAIN FriendlyName : pre.refs[r] = wanted}
    IN  IF Cardinality(cands) = 1
        THEN FriendlyName[CHOOSE r \in cands : TRUE]
        ELSE rev

\* C4: when the hash of R differs from HEAD, the checkout command gets the
\* friendly name of the one local ref (not under refs/remotes) at that hash,
\* and the expression R itself when there is no such ref or more than one.
C4_CheckoutArgument ==
    last.op = "checkout"
    => /\ \A i \in 1..Len(last.cmds) :
              (last.cmds[i].cmd = "checkout" /\ last.cmds[i].args # <<>>)
              => last.cmds[i].args = <<ExpectedCheckoutArg(last.pre, last.arg)>>
       /\ (Issued(last, "show-ref") /\ last.pre.refs # NoRefs)
              => \E i \in 1..Len(last.cmds) :
                     last.cmds[i].cmd = "checkout" /\ last.cmds[i].args # <<>>

\* a hash that a branch and its remote-tracking branch are at, and that
\* HEAD is not at, was checked out by the name of the branch
C4_Witness ==
    /\ last.op = "checkout" /\ last.arg \in Hashes /\ Ok(last)
    /\ last.pre.head # last.arg
    /\ last.pre.refs[RefHeadsMain] = last.arg
    /\ last.pre.refs[RefOriginMain] = last.arg
    /\ last.pre.refs[RefTagsV1] # last.arg
    /\ \E i \in 1..Len(last.cmds) : last.cmds[i] = Cmd("repo", "checkout", <<Main>>, TRUE, 0)

\* a clone or fetch command of the call exited non-zero
TransferFailed(call) ==
    \E i \in 1..Len(call.cmds) :
        /\ call.cmds[i].cmd \in {"clone", "fetch"}
        /\ call.cmds[i].ran /\ call.cmds[i].rc # 0

\* the reachability probe of the call exited non-zero
ProbeFailed(call) ==
    \E i \in 1..Len(call.cmds) :
        /\ call.cmds[i].cmd = "ls-remote" /\ call.cmds[i].where = "parent"
        /\ call.cmds[i].ran /\ call.cmds[i].rc # 0

Transfers == {"clone", "fetch", "download"}

SameRepo(pre) ==
    /\ dir = pre.dir /\ head = pre.head /\ refs = pre.refs /\ remotes = pre.remotes
    /\ untracked = pre.untracked

\* C5: clone on a path that holds a git repository raises the assertion
\* error, hands no command to the backend and changes nothing at the path.
C5_CloneIntoRepository ==
    (last.op = "clone" /\ last.pre.dir = "git")
    => /\ last.exc.type = "AssertionError"
       /\ last.cmds = <<>>
       /\ SameRepo(last.pre)

\* C6: a clone, fetch or download whose clone or fetch command failed and
\* whose reachability probe failed raises BadSource with the name and the
\* source string the caller passed.
C6_BadSourceCarriesSource ==
    (last.op \in Transfers /\ TransferFailed(last) /\ ProbeFailed(last))
    => last.exc = [type |-> "BadSource", args |-> <<last.name, last.arg>>]

\* C7: a clone, fetch or download whose clone or fetch command failed while
\* the source the caller passed is reachable raises GitError, and BadSource
\* is raised only when that source is unreachable.
C7_GitErrorWhenReachable ==
    (last.op \in Transfers)
    => /\ (TransferFailed(last) /\ last.env.reachable) => last.exc.type = "GitError"
       /\ last.exc.type = "BadSource" => ~last.env.reachable

\* the call is a download that found a repository with an origin, and both
\* the origin and the source have an identity
DownloadOnRepo(call) ==
    /\ call.op = "download"
    /\ call.pre.dir = "git"
    /\ ~(call.pre.head = Nil /\ call.pre.refs = NoRefs)
    /\ Origin \in DOMAIN call.pre.remotes
    /\ UrlMatch[call.pre.remotes[Origin]] # <<>>
    /\ UrlMatch[call.arg] # <<>>

AddsOrFetches(call) ==
    \E i \in 1..Len(call.cmds) :
        \/ call.cmds[i].cmd = "fetch"
        \/ call.cmds[i].cmd = "remote" /\ call.cmds[i].args[1] = Str("add")

\* C8: download on an existing repository adds a remote and fetches exactly
\* when the identity (host, organization, repository) of origin differs
\* from the identity of the source.
C8_DownloadComparesIdentities ==
    DownloadOnRepo(last)
    => (AddsOrFetches(last)
            <=> UrlMatch[last.pre.remotes[Origin]] # UrlMatch[last.arg])

\* where the first :: of a token starts, 0 when it has none
FirstSeparator(s) ==
    LET at == {i \in 1..(Len(s) - 1) : s[i] = ":" /\ s[i+1] = ":"}
    IN  IF at = {} THEN 0 ELSE Min(at)

\* C9: from_arg takes the source before the first :: and the revision after
\* it, all of it, and HEAD as the revision of a token without ::.
C9_SplitOnce ==
    pkg.built
    => LET i == FirstSeparator(arg)
       IN  IF i = 0
           THEN pkg.source = arg /\ pkg.revision = Str("HEAD")
           ELSE /\ pkg.source = SubSeq(arg, 1, i - 1)
                /\ pkg.revision = SubSeq(arg, i + 2, Len(arg))

\* C10: no step takes a hash out of known_hashes.
C10_KnownHashesGrow == [][known_hashes \subseteq known_hashes']_vars

\* a call that found hashes in known_hashes and left them there with more
C10_Witness ==
    /\ last.op # "none"
    /\ last.pre.kh # {}
    /\ last.pre.kh \subseteq known_hashes
    /\ known_hashes # last.pre.kh

\* C11: after every operation, returned or raised, path is the path the
\* handle was constructed with.
C11_PathFixed == last.op # "none" => path = "repo"

\* the name of an expression under origin
UnderOrigin(rev) == <<"origin", "/">> \o rev

\* C12: get_commit(E) raises GitCommitNotFound exactly when the repository
\* knows E neither by itself nor as origin/E; it asks for E first and for
\* origin/E only after the first lookup failed; a non-zero exit for another
\* reason raises GitError; and a lookup that succeeds gives the value returned.
C12_ResolutionOutcome ==
    last.op = "get_commit"
    => /\ last.exc.type = "GitCommitNotFound"
            <=> (last.pre.dir = "git" /\ BackendHash(last.pre, last.arg) = Nil)
       /\ last.exc.type = "GitError" <=> last.pre.dir = "plain"
       /\ (last.pre.dir = "git" /\ BackendHash(last.pre, last.arg) # Nil)
            => (Ok(last) /\ last.ret = <<BackendHash(last.pre, last.arg)>>)
       /\ Ok(last) => last.pre.dir = "git"
       /\ last.cmds # <<>>
            => /\ last.cmds[1].cmd = "rev-parse" /\ last.cmds[1].args = <<last.arg>>
               /\ Len(last.cmds) <= 2
               /\ Len(last.cmds) = 2
                    <=> (last.cmds[1].ran /\ last.cmds[1].rc # 0)
               /\ Len(last.cmds) = 2
                    => /\ last.cmds[2].cmd = "rev-parse"
                       /\ last.cmds[2].args = <<UnderOrigin(last.arg)>>

\* C13: download of a source that has no host, organization and repository
\* raises the malformed-source error and hands no command to the backend.
C13_MalformedSourceFailsFast ==
    (last.op = "download" /\ UrlMatch[last.arg] = <<>>)
    => /\ last.exc.type = "MalformedSource"
       /\ last.cmds = <<>>

\* C14: from_manifest on an entry with a name and a commit and no source
\* builds a handle with source None, the name and the commit of the entry
\* and the path wsroot/name, and hands no command to the backend, whatever
\* is at that path.
C14_ManifestWithoutSource ==
    (last.op = "from_manifest" /\ DOMAIN arg.m = {"name", "commit"})
    => /\ Ok(last)
       /\ pkg = [source |-> <<>>, revision |-> arg.m["commit"], name |-> arg.m["name"],
                 path |-> PathJoin(arg.wsroot, arg.m["name"]), built |-> TRUE]
       /\ last.cmds = <<>>

\* a handle built from an entry without source where wsroot/name is missing
C14_Witness ==
    /\ last.op = "from_manifest" /\ DOMAIN arg.m = {"name", "commit"}
    /\ pkg.built /\ pkg.source = <<>>
    /\ dir = "missing"

\* what a rev-parse of the expression, and then of the same name under
\* origin, answers in a repository now: <<v>>, or <<>> when both fail
UncachedAnswer(repo, rev) ==
    IF repo.dir # "git" THEN <<>>
    ELSE IF Resolve(repo, rev) # Nil THEN <<Resolve(repo, rev)>>
    ELSE IF repo.untracked /\ rev = Build THEN <<rev>>
    ELSE IF Resolve(repo, UnderOrigin(rev)) # Nil THEN <<Resolve(repo, UnderOrigin(rev))>>
    ELSE <<>>

\* C15: whatever get_commit(E) returns, from the memo or not, is what the
\* backend answers for E at the time of the call.
C15_NoStaleResolution ==
    (last.op = "get_commit" /\ Ok(last))
    => last.ret = UncachedAnswer(last.pre, last.arg)

\* the expressions that are names and not full hashes
SymbolicExprs == SymbolicRefs \cup {Short(h) : h \in Hashes}

StepsSucceeded(call) ==
    \A i \in 1..Len(call.cmds) :
        /\ call.cmds[i].ran
        /\ \/ call.cmds[i].rc = 0
           \/ /\ call.cmds[i].cmd = "rev-parse" /\ i < Len(call.cmds)
              /\ call.cmds[i+1].cmd = "rev-parse"
              /\ call.cmds[i+1].args = <<UnderOrigin(call.cmds[i].args[1])>>
              /\ call.cmds[i+1].rc = 0

\* every command of the call ran and exited with 0
AllCommandsSucceeded(call) ==
    \A i \in 1..Len(call.cmds) : call.cmds[i].ran /\ call.cmds[i].rc = 0

\* C17 as stated: revision changes only in a checkout that returns, in
\* which every backend command exited with 0, and is then the commit HEAD
\* is at; a checkout that raises leaves the revision as it was.
C17_EveryCommandSucceeded ==
    [][/\ revision' # revision => (last'.op = "checkout" /\ Ok(last'))
       /\ (last'.op = "checkout" /\ Ok(last'))
            => /\ revision' = head' /\ head' # Nil
               /\ AllCommandsSucceeded(last')
       /\ (last'.op = "checkout" /\ ~Ok(last')) => revision' = revision]_vars

\* C17, amended: revision changes only in a checkout that returns; such a
\* checkout had every step succeed (a lookup of the name that failed and
\* was made good under origin is a resolution that succeeded), ends with
\* the reading of HEAD and leaves the commit HEAD is then at as the
\* revision; a checkout that raises leaves the revision as it was.
C17_RevisionAfterCheckout ==
    [][/\ revision' # revision => (last'.op = "checkout" /\ Ok(last'))
       /\ (last'.op = "checkout" /\ Ok(last'))
            => /\ revision' = head' /\ head' # Nil
               /\ StepsSucceeded(last')
               /\ last'.cmds[Len(last'.cmds)].cmd = "rev-parse"
               /\ last'.cmds[Len(last'.cmds)].args = <<HEAD>>
       /\ (last'.op = "checkout" /\ ~Ok(last')) => revision' = revision]_vars

\* a checkout that moved HEAD and replaced the revision of an earlier one
C17_Witness ==
    /\ last.op = "checkout" /\ Ok(last)
    /\ last.pre.revision # Nil
    /\ revision # last.pre.revision
    /\ revision = head
    /\ Issued(last, "show-ref")

\* C18: the remote commands of a download only read the remotes or add
\* one; the name added is host-organization of the source, without a slash
\* and never origin; and an origin the repository had is there afterwards
\* with the same URL.
C18_DownloadKeepsOrigin ==
    last.op = "download"
    => /\ \A i \in 1..Len(last.cmds) :
              last.cmds[i].cmd = "remote"
              => /\ last.cmds[i].args[1] \in {Str("get-url"), Str("show"), Str("add")}
                 /\ last.cmds[i].args[1] = Str("add")
                      => /\ last.cmds[i].args[2] # Origin
                         /\ ~Contains(last.cmds[i].args[2], "/")
                         /\ last.cmds[i].args[2] =
                                UrlMatch[last.arg][1] \o <<"-">>
                                    \o Replace(UrlMatch[last.arg][2], "/", "-")
       /\ (last.pre.dir = "git" /\ Origin \in DOMAIN last.pre.remotes)
            => /\ Origin \in DOMAIN remotes
               /\ remotes[Origin] = last.pre.remotes[Origin]

\* a download from another source than origin that added its remote and
\* left origin as it was
C18_Witness ==
    /\ last.op = "download" /\ Ok(last)
    /\ Origin \in DOMAIN last.pre.remotes
    /\ last.pre.remotes[Origin] # last.arg
    /\ remotes[Origin] = last.pre.remotes[Origin]
    /\ DOMAIN remotes # DOMAIN last.pre.remotes
    /\ \E i \in 1..Len(last.cmds) :
           /\ last.cmds[i].cmd = "remote" /\ last.cmds[i].args[1] = Str("add")
           /\ last.cmds[i].rc = 0

\* C19: a download never issues remote add for a name that is already in
\* the repository's remote list, so a download on an existing repository
\* with a reachable source does not fail on its remote add.
C19_DownloadRepeatable ==
    last.op = "download"
    => \A i \in 1..Len(last.cmds) :
          (last.cmds[i].cmd = "remote" /\ last.cmds[i].args[1] = Str("add"))
          => /\ last.pre.dir = "git"
             /\ last.cmds[i].args[2] \notin DOMAIN last.pre.remotes
             /\ last.cmds[i].rc = 0

\* C20: a get_commit that raised left the known hashes, the memoized
\* results and the revision as they were, and memoized nothing for its
\* expression; a get_commit of an expression that is not memoized asks the
\* backend about it first and returns what the backend answers then.
C20_FailedResolutionChangesNothing ==
    /\ (last.op = "get_commit" /\ ~Ok(last))
         => /\ known_hashes = last.pre.kh
            /\ commit_cache = last.pre.cc
            /\ short_cache = last.pre.sc
            /\ time_cache = last.pre.tc
            /\ revision = last.pre.revision
            /\ last.arg \notin DOMAIN commit_cache
            /\ Issued(last, "rev-parse")
    /\ (last.op = "get_commit" /\ last.arg \notin DOMAIN last.pre.cc)
         => /\ Len(last.cmds) >= 1
            /\ last.cmds[1].cmd = "rev-parse"
            /\ last.cmds[1].args = <<last.arg>>
            /\ Ok(last) <=> UncachedAnswer(last.pre, last.arg) # <<>>
            /\ Ok(last) => last.ret = UncachedAnswer(last.pre, last.arg)

\* a get_commit that raised CommitNotFound on a handle that had known
\* hashes and memoized results
C20_Witness ==
    /\ last.op = "get_commit"
    /\ last.exc.type = "GitCommitNotFound"
    /\ last.pre.kh # {}
    /\ DOMAIN last.pre.cc # {}

====
